---- MODULE Spec2Model ----
(***************************************************************************)
(* highlander: run one command as a single instance across a cluster,      *)
(* arbitrated by a lease on one key of a shared Redis server.              *)
(*                                                                         *)
(* The model holds the Redis key (value and remaining time to live), and   *)
(* for every host one supervisor (Highlander.run) with its RedisLock and   *)
(* its managed child process.  Time is discrete: Tick lets one second      *)
(* pass, for the key's expiry and for every sleeping supervisor alike.     *)
(* Any amount of time may pass between two steps of a supervisor (network  *)
(* latency, a paused process), so Tick is enabled in every state.          *)
(*                                                                         *)
(* The repository holds two versions of RedisLock: the one inside          *)
(* highlander/__init__.py (acquire_lock / refresh_lock, refresh is a GET   *)
(* followed by a SET) and the one of highlander/lock.py (acquire /         *)
(* refresh, refresh is one Lua script).  lock_impl says which one the      *)
(* cluster runs.                                                           *)
(***************************************************************************)
EXTENDS Integers, Sequences, FiniteSets, TLC

\* ------------------------------------------------------------------ bounds
NumProcs == 2          \* supervisors (hosts) contending for the key
Heartbeat == 1         \* the heartbeat interval every supervisor is given

\* ------------------------------------------------------- program constants
LeaseFloor == 5        \* the 5 that lock_time is compared with
LeaseFactor == 5       \* the 5 that a short lock_time is multiplied by

Procs == 1..NumProcs
\* lock_time below, at and above the floor: 2 is what main() derives from a
\* heartbeat of 1, 6 what it derives from the default heartbeat of 3.
LockTimes == {2, 5, 6}
\* The codes the managed command may exit with on its own: success and a failure.
ExitCodes == {0, 7}
Impls == {"init", "lock"}

\* Python's None (redis GET of a missing key, Popen.poll of a live child) and
\* a value that is not None.
None == << >>
Some(v) == <<v>>

\* The Redis key when it does not exist.
Absent == [val |-> None, ttl |-> 0]

VARIABLES
    lock_impl,           \* which RedisLock the cluster runs: "init" or "lock"
    lock_time,           \* RedisLock.lock_time (seconds)
    heartbeat_interval,  \* Highlander._heartbeat_interval (seconds)
    key,                 \* the Redis key every RedisLock of the cluster names
                         \* (lock_identifier): its value and its seconds to live
    pc,                  \* where each supervisor is in Highlander.run
    sleepLeft,           \* seconds left of the supervisor's time.sleep
    child,               \* the managed process: NotStarted, Running, Exited
    returncode,          \* Popen.returncode of the managed process
    result,              \* what Highlander.run returned
    stops,               \* number of calls of Process.stop
    lost,                \* history: the supervisor's key expired or was overwritten
    granted,             \* history: whose acquire returned True during the key's life
    last,                \* history: the call each supervisor completed last
    sigs,                \* the signal pending at the managed process (0: none)
    keyBy,               \* history: the call that wrote the key: acquire or refresh
    afterExit,           \* history: the calls completed since the child's exit
    observed             \* history: the first exit code return_code gave run

vars == <<lock_impl, lock_time, heartbeat_interval, key, pc, sleepLeft, child,
          returncode, result, stops, lost, granted, last, sigs, keyBy,
          afterExit, observed>>

\* --------------------------------------------------------------- the store
\* redis GET: the value, or None for a key that does not exist.
StoreGet(k) == k.val

\* redis SET key value EX ex [NX]: the reply and the key afterwards.
\* With NX the key is written only when it does not exist (reply None).
StoreSet(k, v, ex, nx) ==
    IF nx /\ k.val # None
    THEN [reply |-> FALSE, key |-> k]
    ELSE [reply |-> TRUE, key |-> [val |-> Some(v), ttl |-> ex]]

\* redis EXPIRE key ex: 1 and the new time to live for an existing key, else 0.
StoreExpire(k, ex) ==
    IF k.val # None
    THEN [reply |-> 1, key |-> [k EXCEPT !.ttl = ex]]
    ELSE [reply |-> 0, key |-> k]

\* One second passes for the key: the time to live runs down, and at 0 the
\* key is gone.
StoreTick(k) ==
    IF k.val = None THEN k
    ELSE IF k.ttl <= 1 THEN Absent
    ELSE [k EXCEPT !.ttl = k.ttl - 1]

\* -------------------------------------------------------------- RedisLock
\* The expiry acquire_lock (highlander/__init__.py) hands to SET.
acquire_lock_time(L) == IF L < LeaseFloor THEN L * LeaseFactor ELSE L

\* The expiry acquire (highlander/lock.py) hands to SET.
acquire_ex(L) == IF L > LeaseFloor THEN L ELSE L * LeaseFactor

\* _lock with the NX flag dropped.
_lock_without_nx(k, i, ex, nx_flag) == StoreSet(k, i, ex, FALSE)

\* RedisLock._lock: SET lock_identifier process_identifer EX lock_time [NX].
_lock(k, i, ex, nx_flag) == StoreSet(k, i, ex, nx_flag)

\* acquire_lock answering True whatever SET replied.
acquire_lock_always_true(k, i, L) ==
    [ret |-> TRUE, key |-> _lock(k, i, acquire_lock_time(L), TRUE).key]

\* acquire_lock answering False whatever SET replied.
acquire_lock_never_true(k, i, L) ==
    [ret |-> FALSE, key |-> _lock(k, i, acquire_lock_time(L), TRUE).key]

\* RedisLock.acquire_lock of highlander/__init__.py: what it returns and the
\* key afterwards.
acquire_lock(k, i, L) ==
    LET r == _lock(k, i, acquire_lock_time(L), TRUE)
    IN  [ret |-> r.reply, key |-> r.key]

\* RedisLock.acquire of highlander/lock.py.
acquire(k, i, L) ==
    LET r == StoreSet(k, i, acquire_ex(L), TRUE)
    IN  [ret |-> r.reply, key |-> r.key]

\* The comparison of refresh_lock between values that are never equal (the
\* bytes redis returns against a text identity).
refresh_lock_check_never_equal(k, i) == FALSE

\* The first statement of refresh_lock: GET and compare with
\* process_identifer; TRUE when the comparison lets the refresh go on.
refresh_lock_check(k, i) == StoreGet(k) = Some(i)

\* The SET of refresh_lock issued with NX.
refresh_lock_set_nx(k, i, L) ==
    LET r == _lock(k, i, L, TRUE)
    IN  [raised |-> ~r.reply, key |-> r.key]

\* The second statement of refresh_lock: SET without NX, which redis always
\* accepts; TRUE in raised when 'Could not refresh lock' is raised.
refresh_lock_set(k, i, L) ==
    LET r == _lock(k, i, L, FALSE)
    IN  [raised |-> ~r.reply, key |-> r.key]

\* The Lua script of lock.py, run by redis as one operation: its reply and
\* the key afterwards.
lua_refresh(k, i, ex) ==
    IF StoreGet(k) = Some(i) THEN StoreExpire(k, ex)
    ELSE [reply |-> 0, key |-> k]

\* RedisLock.refresh of highlander/lock.py.
refresh(k, i, L) ==
    LET r == lua_refresh(k, i, L)
    IN  [raised |-> r.reply = 0, key |-> r.key]

\* ---------------------------------------------------------------- Process
\* Process.return_code: Popen.poll, None while the child lives.
return_code(i) == IF child[i] = "Exited" THEN returncode[i] ELSE None

\* ---------------------------------------------------------------- history
\* lost[p] becomes true when the key stops holding p's identity.
LostAfter(k2) ==
    [p \in Procs |-> lost[p] \/ (key.val = Some(p) /\ k2.val # Some(p))]

\* afterExit[i] with the call supervisor i has just completed, once its
\* child has exited; the record ends when a poll has observed the exit or
\* run has raised.
Note(i, call) ==
    [afterExit EXCEPT ![i] =
        IF child[i] = "Exited" /\ pc'[i] \notin {"return", "raised"}
        THEN Append(@, call) ELSE << >>]

\* granted is emptied when the key's life ends.
GrantedAfter(k2, g) == IF k2.val = None THEN {} ELSE g

\* ------------------------------------------------------------------- Init
Init ==
    /\ lock_impl \in Impls
    /\ lock_time \in LockTimes
    /\ heartbeat_interval = Heartbeat
    /\ key = Absent
    /\ pc = [p \in Procs |-> "acquire"]
    /\ sleepLeft = [p \in Procs |-> 0]
    /\ child = [p \in Procs |-> "NotStarted"]
    /\ returncode = [p \in Procs |-> None]
    /\ result = [p \in Procs |-> None]
    /\ stops = [p \in Procs |-> 0]
    /\ lost = [p \in Procs |-> FALSE]
    /\ granted = {}
    /\ last = [p \in Procs |-> "none"]
    /\ sigs = [p \in Procs |-> 0]
    /\ keyBy = "none"
    /\ afterExit = [p \in Procs |-> << >>]
    /\ observed = [p \in Procs |-> None]

config == <<lock_impl, lock_time, heartbeat_interval>>

\* ---------------------------------------------------------- Highlander.run
\* while not self._lock_manager.acquire_lock(): self.sleep()
Acquire(i) ==
    /\ pc[i] = "acquire"
    /\ LET r == IF lock_impl = "init" THEN acquire_lock(key, i, lock_time)
                ELSE acquire(key, i, lock_time)
       IN  /\ key' = r.key
           /\ lost' = LostAfter(r.key)
           /\ IF r.ret
              THEN /\ pc' = [pc EXCEPT ![i] = "start"]
                   /\ granted' = granted \cup {i}
                   /\ UNCHANGED sleepLeft
              ELSE /\ pc' = [pc EXCEPT ![i] = "acquire_sleep"]
                   /\ sleepLeft' = [sleepLeft EXCEPT ![i] = heartbeat_interval]
                   /\ UNCHANGED granted
    /\ UNCHANGED <<config, child, returncode, result, stops>>
    /\ last' = [last EXCEPT ![i] = "acquire"]
    /\ keyBy' = IF pc'[i] = "start" THEN "acquire" ELSE keyBy
    /\ UNCHANGED <<sigs, afterExit, observed>>

\* The acquisition loop giving up after one sleep and starting the child.
AcquireWake_then_start(i) ==
    /\ pc[i] = "acquire_sleep"
    /\ sleepLeft[i] = 0
    /\ pc' = [pc EXCEPT ![i] = "start"]
    /\ UNCHANGED <<config, key, sleepLeft, child, returncode, result, stops,
                   lost, granted>>
    /\ last' = [last EXCEPT ![i] = "sleep"]
    /\ UNCHANGED <<sigs, keyBy, afterExit, observed>>

\* The sleep of the acquisition loop is over.
AcquireWake(i) ==
    /\ pc[i] = "acquire_sleep"
    /\ sleepLeft[i] = 0
    /\ pc' = [pc EXCEPT ![i] = "acquire"]
    /\ UNCHANGED <<config, key, sleepLeft, child, returncode, result, stops,
                   lost, granted>>
    /\ last' = [last EXCEPT ![i] = "sleep"]
    /\ UNCHANGED <<sigs, keyBy, afterExit, observed>>

\* proc = Process(self._cmd)
Start(i) ==
    /\ pc[i] = "start"
    /\ child' = [child EXCEPT ![i] = "Running"]
    /\ pc' = [pc EXCEPT ![i] = "poll"]
    /\ UNCHANGED <<config, key, sleepLeft, returncode, result, stops, lost,
                   granted>>
    /\ last' = [last EXCEPT ![i] = "start"]
    /\ UNCHANGED <<sigs, keyBy, afterExit, observed>>

\* The loop body beginning with self.sleep() instead of refresh_lock().
Poll_then_sleep(i) ==
    /\ pc[i] = "poll"
    /\ pc' = [pc EXCEPT ![i] = IF return_code(i) = None THEN "sleep"
                               ELSE "return"]
    /\ sleepLeft' = [sleepLeft EXCEPT ![i] = IF return_code(i) = None
                                             THEN heartbeat_interval ELSE 0]
    /\ last' = [last EXCEPT ![i] = "poll"]
    /\ UNCHANGED <<config, key, child, returncode, result, stops, lost, granted>>
    /\ afterExit' = Note(i, "poll")
    /\ observed' = [observed EXCEPT ![i] = return_code(i)]
    /\ UNCHANGED <<sigs, keyBy>>

\* The loop condition written "while not proc.return_code():", which takes
\* the exit code 0 for a child that still runs.
Poll_while_falsy(i) ==
    /\ pc[i] = "poll"
    /\ pc' = [pc EXCEPT ![i] = IF return_code(i) \in {None, Some(0)}
                               THEN "refresh" ELSE "return"]
    /\ UNCHANGED <<config, key, sleepLeft, child, returncode, result, stops,
                   lost, granted>>
    /\ last' = [last EXCEPT ![i] = "poll"]
    /\ afterExit' = Note(i, "poll")
    /\ observed' = [observed EXCEPT ![i] = return_code(i)]
    /\ UNCHANGED <<sigs, keyBy>>

\* while proc.return_code() is None:
Poll(i) ==
    /\ pc[i] = "poll"
    /\ pc' = [pc EXCEPT ![i] = IF return_code(i) = None THEN "refresh"
                               ELSE "return"]
    /\ UNCHANGED <<config, key, sleepLeft, child, returncode, result, stops,
                   lost, granted>>
    /\ last' = [last EXCEPT ![i] = "poll"]
    /\ afterExit' = Note(i, "poll")
    /\ observed' = [observed EXCEPT ![i] = return_code(i)]
    /\ UNCHANGED <<sigs, keyBy>>

\* refresh_lock of highlander/__init__.py, first statement; LockException
\* leaves run, which catches nothing.
RefreshCheck(i) ==
    /\ lock_impl = "init"
    /\ pc[i] = "refresh"
    /\ pc' = [pc EXCEPT ![i] = IF refresh_lock_check(key, i)
                               THEN "refresh_set" ELSE "raised"]
    /\ UNCHANGED <<config, key, sleepLeft, child, returncode, result, stops,
                   lost, granted>>
    /\ UNCHANGED last
    /\ afterExit' = IF pc'[i] = "raised" THEN Note(i, "refresh") ELSE afterExit
    /\ UNCHANGED <<sigs, keyBy, observed>>

\* refresh_lock of highlander/__init__.py, second statement, then self.sleep().
RefreshSet(i) ==
    /\ lock_impl = "init"
    /\ pc[i] = "refresh_set"
    /\ LET r == refresh_lock_set(key, i, lock_time)
       IN  /\ key' = r.key
           /\ lost' = LostAfter(r.key)
           /\ IF r.raised
              THEN /\ pc' = [pc EXCEPT ![i] = "raised"]
                   /\ UNCHANGED sleepLeft
              ELSE /\ pc' = [pc EXCEPT ![i] = "sleep"]
                   /\ sleepLeft' = [sleepLeft EXCEPT ![i] = heartbeat_interval]
    /\ UNCHANGED <<config, child, returncode, result, stops, granted>>
    /\ last' = [last EXCEPT ![i] = "refresh"]
    /\ keyBy' = IF pc'[i] = "sleep" THEN "refresh" ELSE keyBy
    /\ afterExit' = Note(i, "refresh")
    /\ UNCHANGED <<sigs, observed>>

\* refresh of highlander/lock.py, then self.sleep().
Refresh(i) ==
    /\ lock_impl = "lock"
    /\ pc[i] = "refresh"
    /\ LET r == refresh(key, i, lock_time)
       IN  /\ key' = r.key
           /\ lost' = LostAfter(r.key)
           /\ IF r.raised
              THEN /\ pc' = [pc EXCEPT ![i] = "raised"]
                   /\ UNCHANGED sleepLeft
              ELSE /\ pc' = [pc EXCEPT ![i] = "sleep"]
                   /\ sleepLeft' = [sleepLeft EXCEPT ![i] = heartbeat_interval]
    /\ UNCHANGED <<config, child, returncode, result, stops, granted>>
    /\ last' = [last EXCEPT ![i] = "refresh"]
    /\ keyBy' = IF pc'[i] = "sleep" THEN "refresh" ELSE keyBy
    /\ afterExit' = Note(i, "refresh")
    /\ UNCHANGED <<sigs, observed>>

\* The sleep of the running loop is over.
Wake(i) ==
    /\ pc[i] = "sleep"
    /\ sleepLeft[i] = 0
    /\ pc' = [pc EXCEPT ![i] = "poll"]
    /\ UNCHANGED <<config, key, sleepLeft, child, returncode, result, stops,
                   lost, granted>>
    /\ last' = [last EXCEPT ![i] = "sleep"]
    /\ afterExit' = Note(i, "sleep")
    /\ UNCHANGED <<sigs, keyBy, observed>>

\* run returning 0 whatever the child's exit code was.
Return_zero(i) ==
    /\ pc[i] = "return"
    /\ result' = [result EXCEPT ![i] = Some(0)]
    /\ pc' = [pc EXCEPT ![i] = "done"]
    /\ UNCHANGED <<config, key, sleepLeft, child, returncode, stops, lost,
                   granted>>
    /\ last' = [last EXCEPT ![i] = "poll"]
    /\ UNCHANGED <<sigs, keyBy, afterExit, observed>>

\* return proc.return_code()
Return(i) ==
    /\ pc[i] = "return"
    /\ result' = [result EXCEPT ![i] = return_code(i)]
    /\ pc' = [pc EXCEPT ![i] = "done"]
    /\ UNCHANGED <<config, key, sleepLeft, child, returncode, stops, lost,
                   granted>>
    /\ last' = [last EXCEPT ![i] = "poll"]
    /\ UNCHANGED <<sigs, keyBy, afterExit, observed>>

\* ------------------------------------------------------------ environment
\* The managed command ends on its own with exit code c.
ChildExit(i, c) ==
    /\ child[i] = "Running"
    /\ child' = [child EXCEPT ![i] = "Exited"]
    /\ returncode' = [returncode EXCEPT ![i] = Some(c)]
    /\ sigs' = [sigs EXCEPT ![i] = 0]
    /\ UNCHANGED <<config, key, pc, sleepLeft, result, stops, lost, granted>>
    /\ UNCHANGED last
    /\ UNCHANGED <<keyBy, afterExit, observed>>

\* One second passes: for the key and for every sleeping supervisor.
Tick ==
    /\ key' = StoreTick(key)
    /\ sleepLeft' = [p \in Procs |-> IF sleepLeft[p] > 0 THEN sleepLeft[p] - 1
                                     ELSE 0]
    /\ lost' = LostAfter(StoreTick(key))
    /\ granted' = GrantedAfter(StoreTick(key), granted)
    /\ UNCHANGED <<config, pc, child, returncode, result, stops>>
    /\ UNCHANGED last
    /\ keyBy' = IF StoreTick(key).val = None THEN "none" ELSE keyBy
    /\ UNCHANGED <<sigs, afterExit, observed>>

Step(i) ==
    \/ Acquire(i)
    \/ AcquireWake(i)
    \/ Start(i)
    \/ Poll(i)
    \/ RefreshCheck(i)
    \/ RefreshSet(i)
    \/ Refresh(i)
    \/ Wake(i)
    \/ Return(i)

Next ==
    \/ \E i \in Procs : Step(i)
    \/ \E i \in Procs, c \in ExitCodes : ChildExit(i, c)
    \/ Tick

Spec == Init /\ [][Next]_vars

\* The takeover scenario: two supervisors contend, the other hosts are down.
\* A supervisor that can take a step takes it, and time does not stand still.
Contenders == {1, 2}

TakeoverNext ==
    \/ \E i \in Contenders : Step(i)
    \/ \E i \in Contenders, c \in ExitCodes : ChildExit(i, c)
    \/ Tick

TakeoverSpec ==
    /\ Init /\ [][TakeoverNext]_vars
    /\ WF_vars(Tick) /\ \A i \in Contenders : WF_vars(Step(i))

\* ---------------------------------------------------------------- signals
SIGTERM == 15          \* signal.SIGTERM
SIGINT == 2            \* signal.SIGINT
Signals == {SIGTERM, SIGINT}

\* ------------------------------------------------------------------ bound
MaxStops == 1          \* calls of Process.stop per supervisor

\* Popen.send_signal(signum), Popen.terminate(): the signal the managed
\* process has received afterwards.  A child that has exited and has not
\* been reaped yet takes the signal without effect.
send_signal(i, signum) ==
    [sigs EXCEPT ![i] = IF child[i] = "Running" THEN signum ELSE @]

\* Process.sigterm_handler(signum, frame): forwards signum.
sigterm_handler(i, signum) == send_signal(i, signum)

\* Process.stop: terminate() and nothing else; the method has no return
\* statement.
stop(i) == [sigs |-> send_signal(i, SIGTERM), ret |-> None]

\* The operating system delivers signal s to supervisor i.
\*   In the acquisition loop, and until Process.__init__ has installed the
\* handlers, the default action ends the supervisor.  Once they are installed
\* and until Popen has returned the handler finds no self.process and raises
\* into Process.__init__; the child may have been forked by then.
\*   In the running loop the handler forwards s, and a time.sleep in
\* progress returns when the handler has run.
\*   After the poll that reaped the child, send_signal either does nothing
\* or raises OSError (no such process), as the Python build has it.
Signal(i, s) ==
    /\ pc[i] \in {"acquire", "acquire_sleep", "start", "poll", "refresh",
                  "refresh_set", "sleep", "return"}
    /\ \/ /\ pc[i] \in {"acquire", "acquire_sleep"}
          /\ pc' = [pc EXCEPT ![i] = "interrupted"]
          /\ sleepLeft' = [sleepLeft EXCEPT ![i] = 0]
          /\ UNCHANGED <<child, sigs>>
       \/ /\ pc[i] = "start"
          /\ pc' = [pc EXCEPT ![i] = "interrupted"]
          /\ \E c \in {"NotStarted", "Running"} :
                child' = [child EXCEPT ![i] = c]
          /\ UNCHANGED <<sleepLeft, sigs>>
       \/ /\ pc[i] \in {"poll", "refresh", "refresh_set", "sleep"}
          /\ sigs' = sigterm_handler(i, s)
          /\ sleepLeft' = [sleepLeft EXCEPT ![i] = 0]
          /\ UNCHANGED <<pc, child>>
       \/ /\ pc[i] = "return"
          /\ \E p \in {"return", "interrupted"} : pc' = [pc EXCEPT ![i] = p]
          /\ UNCHANGED <<sleepLeft, child, sigs>>
    /\ UNCHANGED <<config, key, returncode, result, stops, lost, granted, last,
                   keyBy, afterExit, observed>>

\* The managed process dies of the signal it received: Popen reports the
\* negated signal number.
ChildKilled(i) ==
    /\ child[i] = "Running"
    /\ sigs[i] # 0
    /\ child' = [child EXCEPT ![i] = "Exited"]
    /\ returncode' = [returncode EXCEPT ![i] = Some(0 - sigs[i])]
    /\ sigs' = [sigs EXCEPT ![i] = 0]
    /\ UNCHANGED <<config, key, pc, sleepLeft, result, stops, lost, granted,
                   last, keyBy, afterExit, observed>>

\* A caller invokes Process.stop on the Process that run created.
Stop(i) ==
    /\ pc[i] \in {"poll", "refresh", "refresh_set", "sleep", "return"}
    /\ stops[i] < MaxStops
    /\ stops' = [stops EXCEPT ![i] = @ + 1]
    /\ sigs' = stop(i).sigs
    /\ UNCHANGED <<config, key, pc, sleepLeft, child, returncode, result, lost,
                   granted, last, keyBy, afterExit, observed>>

\* Two supervisors whose operating system delivers signals to them.
SignalNext ==
    \/ TakeoverNext
    \/ \E i \in Contenders, s \in Signals : Signal(i, s)
    \/ \E i \in Contenders : ChildKilled(i)

SignalSpec == Init /\ [][SignalNext]_vars

\* Two supervisors whose Process is stopped by a caller of Process.stop.
StopNext ==
    \/ TakeoverNext
    \/ \E i \in Contenders : Stop(i)
    \/ \E i \in Contenders : ChildKilled(i)

StopSpec == Init /\ [][StopNext]_vars

TypeOK ==
    /\ lock_impl \in Impls
    /\ lock_time \in LockTimes
    /\ heartbeat_interval = Heartbeat
    /\ key.val \in {None} \cup {Some(p) : p \in Procs}
    /\ key.ttl \in 0..(LeaseFloor * LeaseFactor)
    /\ pc \in [Procs -> {"acquire", "acquire_sleep", "start", "poll", "refresh",
                         "refresh_set", "sleep", "return", "done", "raised",
                         "interrupted"}]
    /\ sleepLeft \in [Procs -> 0..Heartbeat]
    /\ child \in [Procs -> {"NotStarted", "Running", "Exited"}]
    /\ stops \in [Procs -> 0..MaxStops]
    /\ sigs \in [Procs -> {0} \cup Signals]
    /\ keyBy \in {"none", "acquire", "refresh"}
    /\ afterExit \in [Procs -> {<< >>, <<"refresh">>, <<"sleep">>,
                               <<"refresh", "sleep">>}]
    /\ granted \subseteq Procs
    /\ last \in [Procs -> {"none", "acquire", "sleep", "start", "poll", "refresh"}]

\* ================================================================= claims
RunningChildren == {p \in Procs : child[p] = "Running"}

\* A refresh of supervisor i returns normally in this step.
RefreshReturns(i) == pc[i] \in {"refresh", "refresh_set"} /\ pc'[i] = "sleep"

\* An acquire of supervisor i returns True in this step.
AcquireReturnsTrue(i) == pc[i] = "acquire" /\ pc'[i] = "start"

\* C1 as stated: in every reachable state at most one managed child is
\* Running, whatever the interleaving of acquire, refresh, sleeps, lease
\* expiry and child exit.
C1_SingleInstance == Cardinality(RunningChildren) <= 1

\* C1 amended: at most one Running child belongs to a supervisor whose key
\* has neither expired nor been overwritten since it acquired it.
C1_SingleInstanceWhileHeld ==
    Cardinality({p \in RunningChildren : ~lost[p]}) <= 1

\* Two children run at once, one of a supervisor that lost its key and one
\* of the supervisor that holds it.
C1_Witness ==
    \E i, j \in Procs :
        /\ i # j
        /\ child[i] = "Running" /\ lost[i]
        /\ child[j] = "Running" /\ ~lost[j] /\ key.val = Some(j)

\* C2: while one lease on the key is outstanding (from a successful create
\* to the key's expiry) at most one acquire has returned True.
C2_MutualExclusion == Cardinality(granted) <= 1

\* One supervisor was granted the key and another one's acquire returned
\* False during the same lease.
C2_Witness ==
    \E i, j \in Procs :
        i # j /\ granted = {i} /\ key.val = Some(i) /\ pc[j] = "acquire_sleep"

\* C3: a refresh called after the caller's key expired or was overwritten,
\* or during which that happens, raises LockException: no refresh of a
\* supervisor that lost its key returns normally.
C3_RefreshAfterLossRaises ==
    [][\A i \in Procs : RefreshReturns(i) => ~lost[i]]_vars

\* C4: refresh is one atomic compare-and-extend: a refresh never writes or
\* extends the key while the key is absent or holds another identity.
C4_RefreshAtomic ==
    [][\A i \in Procs : RefreshReturns(i) => key.val = Some(i)]_vars

\* C5: when refresh raises LockException the supervisor stops its child and
\* ends with the child's exit code: the refresh error is never the outcome
\* of run.
C5_LockLossStopsChild == \A i \in Procs : pc[i] # "raised"

C7_HolderRefreshSucceeds ==
    [][\A i \in Procs :
          /\ (pc[i] = "refresh" /\ key.val = Some(i) /\ pc'[i] # "refresh")
                => pc'[i] \in {"refresh_set", "sleep"}
          /\ pc[i] = "refresh_set" => pc'[i] # "raised"
          /\ RefreshReturns(i) => key' = [val |-> Some(i), ttl |-> lock_time]
      ]_vars

\* The holder has just refreshed: it sleeps its whole heartbeat, the key is
\* its own, with lock_time to live.
C7_Witness ==
    \E i \in Procs :
        /\ pc[i] = "sleep" /\ sleepLeft[i] = heartbeat_interval
        /\ ~lost[i]
        /\ key = [val |-> Some(i), ttl |-> lock_time]

\* C8: the expiry a successful acquire applies is lock_time * 5 when
\* lock_time < 5 and lock_time when lock_time >= 5, in both RedisLocks.
C8_LeaseFloor ==
    [][\A i \in Procs :
          AcquireReturnsTrue(i) =>
              key'.ttl = IF lock_time < 5 THEN lock_time * 5 ELSE lock_time
      ]_vars

\* Supervisor p has left run: it returned or an exception ended it.
Ended(p) == pc[p] \in {"done", "raised"}

\* C9: when a holds the key and has ended (it refreshes no more) and b is
\* in the acquisition loop, every acquire of b returns False while the key
\* lives and True once it is gone, and b eventually leaves the acquisition
\* loop as the holder.
C9_Takeover ==
    /\ [][\A b \in Contenders :
            (pc[b] = "acquire" /\ pc'[b] # "acquire")
                => (pc'[b] = "start" <=> key.val = None)]_vars
    /\ \A a, b \in Contenders :
          (/\ a # b
           /\ key.val = Some(a) /\ Ended(a)
           /\ pc[b] \in {"acquire", "acquire_sleep"})
              ~> (pc[b] = "start" /\ key.val = Some(b))

\* b has taken the key over after a ended and a's lease ran out.
C9_Witness ==
    \E a, b \in Contenders :
        /\ a # b
        /\ pc[a] = "done" /\ lost[a]
        /\ pc[b] = "start" /\ key.val = Some(b) /\ last[b] = "acquire"

\* C10 as stated: the running loop polls, then sleeps, then refreshes: a
\* refresh is called only after a sleep, a sleep only after a poll, and a
\* poll only after the start of the child or after a refresh.
C10_PollSleepRefresh ==
    \A i \in Procs :
        /\ pc[i] \in {"refresh", "refresh_set"} => last[i] = "sleep"
        /\ pc[i] = "sleep" => last[i] = "poll"
        /\ pc[i] = "poll" => last[i] \in {"start", "refresh"}

\* C10 amended: the running loop polls, then refreshes, then sleeps: a
\* refresh is called only after a poll (the first one with no sleep since the
\* acquire), a sleep only after a refresh, and a poll only after the start
\* of the child or after a sleep.
C10_PollRefreshSleep ==
    \A i \in Procs :
        /\ pc[i] \in {"refresh", "refresh_set"} => last[i] = "poll"
        /\ pc[i] = "sleep" => last[i] = "refresh"
        /\ pc[i] = "poll" => last[i] \in {"start", "sleep"}

\* A supervisor is back at the poll after a whole cycle, still the holder.
C10_Witness ==
    \E i \in Procs :
        pc[i] = "poll" /\ last[i] = "sleep" /\ key.val = Some(i) /\ ~lost[i]

\* The expiry the key was given by the call that wrote it last.
KeyLease ==
    IF keyBy = "refresh" THEN lock_time
    ELSE IF lock_impl = "init" THEN acquire_lock_time(lock_time)
    ELSE acquire_ex(lock_time)

\* Seconds since the key was written by an acquire or a refresh.
KeyAge == KeyLease - key.ttl

\* C11: with lock_time = 2 * heartbeat_interval a holder that refreshes two
\* heartbeat intervals after its previous acquire or refresh finds its key
\* present: a key its holder wrote less than two intervals ago is still
\* there one second later.
C11_MissedHeartbeat ==
    \A i \in Procs :
        (/\ lock_time = 2 * heartbeat_interval
         /\ key.val = Some(i) /\ ~lost[i]
         /\ KeyAge < 2 * heartbeat_interval)
            => StoreTick(key).val = Some(i)

\* C12: an acquire returns True exactly when the key is absent (or expired)
\* at the SET; after True the key holds the caller's identity with the
\* effective lease (lock_time * 5 below 5, else lock_time) to live; with a
\* live key it returns False and does not raise.
C12_AcquireMatchesStore ==
    [][\A i \in Procs :
          (pc[i] = "acquire" /\ pc'[i] # "acquire") =>
              /\ pc'[i] = "start" <=> key.val = None
              /\ pc'[i] = "start" =>
                    key' = [val |-> Some(i),
                            ttl |-> IF lock_time < 5 THEN lock_time * 5
                                    ELSE lock_time]
              /\ pc'[i] # "start" => pc'[i] = "acquire_sleep"
      ]_vars

\* C13: when Process.stop returns, the managed child is Exited and the
\* value stop returned is the child's exit code.
C13_StopSynchronous ==
    [][\A i \in Procs :
          Stop(i) => child'[i] = "Exited" /\ stop(i).ret = returncode'[i]
      ]_vars

\* C14: a SIGTERM or SIGINT delivered to a supervisor that has left the
\* acquisition loop is relayed to the child with the same number and does
\* not end the supervisor; the supervisor is done only after the child has
\* exited, and its result is the child's exit code.
C14_SignalForwarding ==
    /\ [][\A i \in Procs, s \in Signals :
            (Signal(i, s) /\ pc[i] \notin {"acquire", "acquire_sleep"}) =>
                /\ pc'[i] = pc[i]
                /\ child[i] = "Running" => sigs'[i] = s
        ]_vars
    /\ [](\A i \in Procs :
            pc[i] = "done" =>
                /\ child[i] = "Exited"
                /\ result[i] # None /\ result[i] = returncode[i])

\* C15 as stated: once the child has exited on its own, the supervisor
\* performs no refresh, and at most one sleep, before the poll that observes
\* the exit.
C15_PromptExitDetection ==
    \A i \in Procs : afterExit[i] \in {<< >>, <<"sleep">>}

\* C15 amended: once the child has exited on its own, the supervisor
\* completes at most one refresh (the one its last poll had already led
\* to) and at most one sleep before the poll that observes the exit, and
\* that poll ends the loop.
C15_ExitDetectedWithinOneCycle ==
    \A i \in Procs :
        /\ afterExit[i] \in {<< >>, <<"refresh">>, <<"sleep">>,
                             <<"refresh", "sleep">>}
        /\ afterExit[i] = <<"refresh">> => pc[i] = "sleep"
        /\ afterExit[i] \in {<<"sleep">>, <<"refresh", "sleep">>} =>
              pc[i] = "poll" /\ return_code(i) # None
        /\ pc[i] \in {"return", "done"} =>
              afterExit[i] = << >> /\ observed[i] = returncode[i]

\* The child exited between a poll and the refresh: the supervisor has
\* refreshed and slept, and is at the poll that will observe the exit.
C15_Witness ==
    \E i \in Procs :
        /\ pc[i] = "poll" /\ child[i] = "Exited"
        /\ afterExit[i] = <<"refresh", "sleep">>

\* C16: once return_code has given run an exit code, every later call gives
\* the same code, and the code run returns is the code that ended its loop.
C16_PollIdempotent ==
    \A i \in Procs :
        /\ observed[i] # None => return_code(i) = observed[i]
        /\ pc[i] = "done" => result[i] # None /\ result[i] = observed[i]

\* run has returned the code 7 that its loop-ending poll observed.
C16_Witness ==
    \E i \in Procs :
        pc[i] = "done" /\ observed[i] = Some(7) /\ result[i] = Some(7)

\* C17: a supervisor starts its child at most once and only right after an
\* acquire of its own returned True; in the acquisition loop there is no
\* child, and a failed acquire is followed by one sleep of a heartbeat
\* interval and then another acquire.
C17_NoChildWithoutLock ==
    \A i \in Procs :
        /\ child[i] = "NotStarted" <=>
              pc[i] \in {"acquire", "acquire_sleep", "start"}
        /\ pc[i] = "start" =>
              last[i] = "acquire" /\ (key.val = Some(i) \/ lost[i])
        /\ pc[i] = "acquire_sleep" =>
              last[i] = "acquire" /\ sleepLeft[i] <= heartbeat_interval
        /\ pc[i] = "acquire" => last[i] \in {"none", "sleep"}

\* One supervisor is about to start its child on the key it acquired, the
\* other sleeps after a failed acquire and has no child.
C17_Witness ==
    \E i, j \in Procs :
        /\ i # j
        /\ pc[i] = "start" /\ child[i] = "NotStarted" /\ key.val = Some(i)
        /\ pc[j] = "acquire_sleep" /\ child[j] = "NotStarted"
        /\ sleepLeft[j] = heartbeat_interval

\* C18: when run has ended, by returning or by an exception, the child it
\* started is not Running.
C18_NoOrphanedChild ==
    \A i \in Procs : Ended(i) => child[i] # "Running"

\* C19: a refresh that returns leaves the key with lock_time to live, and
\* that is not less than the key had to live before the refresh.
C19_RefreshNeverShortens ==
    [][\A i \in Procs :
          RefreshReturns(i) =>
              key'.ttl = lock_time /\ key'.ttl >= key.ttl
      ]_vars

\* C20: an acquire that returns False leaves the key's value and its time to
\* live as they were.
C20_FailedAcquireChangesNothing ==
    [][\A i \in Procs :
          (pc[i] = "acquire" /\ pc'[i] = "acquire_sleep") => key' = key
      ]_vars

\* A contender's acquire has just failed against the key of a holder whose
\* child runs; the key has run down since the holder wrote it.
C20_Witness ==
    \E i, j \in Procs :
        /\ i # j
        /\ pc[j] = "acquire_sleep" /\ sleepLeft[j] = heartbeat_interval
        /\ last[j] = "acquire"
        /\ key.val = Some(i) /\ ~lost[i] /\ child[i] = "Running"
        /\ KeyAge > 0

====
